---- MODULE Spec2Model ----
(***************************************************************************)
(* Model of b2c.py: the import of banshee statistics and playlists into a  *)
(* clementine database.                                                    *)
(*                                                                         *)
(* Strings are sequences of one-character strings.  A nullable SQL value   *)
(* is a tuple: << >> is NULL and <<v>> is the value v.                     *)
(***************************************************************************)
EXTENDS Integers, Sequences, FiniteSets, TLC

VARIABLES
    args,            \* self.args: update_stats, import_playlists
    banshee,         \* the source store: the rows its queries return
    fs,              \* the filesystem: path -> kind of file
    clementine,      \* the target store as the open connection sees it
    disk,            \* the durable contents of the target store
    pc,              \* position of run()
    error,           \* the uncaught exception that ended the run, "" if none
    item,            \* run(): item, the row of CoreTracks at hand
    i,               \* number of rows of CoreTracks fetched
    nb_items,        \* run(): nb_items
    pl,              \* run(): pl, the row of the playlist query at hand
    j,               \* number of rows of the playlist query fetched
    pl_item,         \* _parse_playlist: pl_item, the member row at hand
    m,               \* number of member rows fetched for pl
    playlist_id,     \* _parse_playlist: playlist_id
    nb_added,        \* _parse_playlist: nb_added
    clem_playlists,  \* self.clem_playlists: offset -> name
    call,            \* the parameters of the UPDATE the last step executed, or NULL
    rowcount,        \* cursor.rowcount of that UPDATE
    prev_call,       \* call as it was before the last step
    queried,         \* the :filename of the SELECT on songs the last step executed, or NULL
    logged,          \* the records the last step logged
    startDisk,       \* the durable contents when the running process started
    past,            \* the runs that ended before this one: start contents, outcome
    codec            \* a call of a path function on its own: argument and result

vars == <<args, banshee, fs, clementine, disk, pc, error, item, i, nb_items, pl, j,
          pl_item, m, playlist_id, nb_added, clem_playlists, call, rowcount, prev_call,
          queried, logged, startDisk, past, codec>>

inputs == <<args, banshee, fs>>

-----------------------------------------------------------------------------
(* Bounds of the model *)

MaxTracks == 2
MaxPlaylists == 2
MaxMembers == 2
MaxRuns == 2
ClosedTracks == 2
ClosedPlaylists == 1
ClosedMembers == 1
ImportMembers == 3
MaxTokens == 3

-----------------------------------------------------------------------------
(* Nullable values *)

NULL == << >>
Some(v) == <<v>>
IsNull(x) == x = << >>
Get(x) == x[1]

-----------------------------------------------------------------------------
(* Characters: printable ASCII, code 32 to 126; any other byte, and the    *)
(* grave accent (code 96), is written as the four-character token \xHH.    *)

Ascii ==
    <<" ", "!", "\"", "#", "$", "%", "&", "'", "(", ")", "*", "+", ",", "-", ".", "/",
      "0", "1", "2", "3", "4", "5", "6", "7", "8", "9", ":", ";", "<", "=", ">", "?",
      "@", "A", "B", "C", "D", "E", "F", "G", "H", "I", "J", "K", "L", "M", "N", "O",
      "P", "Q", "R", "S", "T", "U", "V", "W", "X", "Y", "Z", "[", "\\", "]", "^", "_",
      "\\x60", "a", "b", "c", "d", "e", "f", "g", "h", "i", "j", "k", "l", "m", "n", "o",
      "p", "q", "r", "s", "t", "u", "v", "w", "x", "y", "z", "{", "|", "}", "~">>

HexDigits == <<"0", "1", "2", "3", "4", "5", "6", "7", "8", "9",
               "A", "B", "C", "D", "E", "F">>

Chr(n) ==
    IF n \in 32..126 THEN Ascii[n - 31]
    ELSE "\\x" \o HexDigits[(n \div 16) + 1] \o HexDigits[(n % 16) + 1]

Chars == {Chr(n) : n \in 0..255}

OrdTable == [c \in Chars |-> CHOOSE n \in 0..255 : Chr(n) = c]

Ord(c) == OrdTable[c]

Upper(c) == IF Ord(c) \in 97..122 THEN Chr(Ord(c) - 32) ELSE c

Lower(c) == IF Ord(c) \in 65..90 THEN Chr(Ord(c) + 32) ELSE c

IsHexDigit(c) == \E k \in 1..16 : HexDigits[k] = Upper(c)

HexVal(c) == (CHOOSE k \in 1..16 : HexDigits[k] = Upper(c)) - 1

RECURSIVE Flatten(_)
Flatten(ss) == IF ss = << >> THEN << >> ELSE Head(ss) \o Flatten(Tail(ss))

StartsWith(s, prefix) ==
    Len(s) >= Len(prefix) /\ SubSeq(s, 1, Len(prefix)) = prefix

Contains(s, sub) ==
    \E k \in 0..(Len(s) - Len(sub)) : SubSeq(s, k + 1, k + Len(sub)) = sub

\* str.replace(old, new): every non-overlapping occurrence, left to right
RECURSIVE Replace(_, _, _)
Replace(s, old, new) ==
    IF s = << >> THEN << >>
    ELSE IF StartsWith(s, old)
         THEN new \o Replace(SubSeq(s, Len(old) + 1, Len(s)), old, new)
         ELSE <<Head(s)>> \o Replace(Tail(s), old, new)

-----------------------------------------------------------------------------
(* urllib.quote and urllib.unquote of Python 2 *)

\* urllib.always_safe plus the default safe character '/'
IsSafeChar(c) ==
    \/ Ord(c) \in 48..57
    \/ Ord(c) \in 65..90
    \/ Ord(c) \in 97..122
    \/ c \in {"_", ".", "-", "/"}

QuoteChar(c) ==
    IF IsSafeChar(c) THEN <<c>>
    ELSE <<"%", HexDigits[(Ord(c) \div 16) + 1], HexDigits[(Ord(c) % 16) + 1]>>

Quote(s) == Flatten([k \in 1..Len(s) |-> QuoteChar(s[k])])

\* a '%' followed by two hex digits becomes the byte; any other '%' stays
RECURSIVE Unquote(_)
Unquote(s) ==
    IF s = << >> THEN << >>
    ELSE IF Head(s) = "%" /\ Len(s) >= 3 /\ IsHexDigit(s[2]) /\ IsHexDigit(s[3])
         THEN <<Chr(16 * HexVal(s[2]) + HexVal(s[3]))>> \o Unquote(SubSeq(s, 4, Len(s)))
         ELSE <<Head(s)>> \o Unquote(Tail(s))

-----------------------------------------------------------------------------
(* The path codec of b2c.py *)

FileScheme == <<"f", "i", "l", "e", ":", "/", "/">>

\* _uri_to_path on a uri that is not None
UriToPath(uri) ==
    LET u == Unquote(uri)
    IN  IF StartsWith(u, FileScheme \o <<"/">>) THEN SubSeq(u, 8, Len(u)) ELSE u

\* the test without its second half: a '%20' is enough
CheckUrlencodeAnySpace(path) == Contains(path, <<"%", "2", "0">>)

CheckUrlencode(path) ==
    Contains(path, <<"%", "2", "0">>) /\ ~Contains(path, <<" ">>)

\* the percent-escapes clementine stores unencoded, in the order of the code
Unescaped ==
    <<<<"2", "C", ",">>, <<"2", "8", "(">>, <<"2", "9", ")">>, <<"2", "7", "'">>,
      <<"2", "6", "&">>, <<"2", "B", "+">>, <<"2", "1", "!">>, <<"3", "B", ";">>,
      <<"3", "D", "=">>, <<"7", "E", "~">>, <<"4", "0", "@">>, <<"2", "4", "$">>>>

RECURSIVE ReplaceAll(_, _)
ReplaceAll(s, table) ==
    IF table = << >> THEN s
    ELSE ReplaceAll(Replace(s, <<"%", Head(table)[1], Head(table)[2]>>,
                            <<Head(table)[3]>>),
                    Tail(table))

GetBansheeFilename(path) ==
    LET p == IF CheckUrlencode(path) THEN path ELSE Quote(path)
    IN  IF StartsWith(p, FileScheme) THEN p ELSE FileScheme \o p

\* _get_clementine_filename without its chain of replace: every escape stays
GetClementineFilenameEscaped(path) ==
    LET p == IF CheckUrlencode(path) THEN path ELSE Quote(path)
    IN  IF StartsWith(p, FileScheme) THEN p ELSE FileScheme \o p

GetClementineFilename(path) ==
    LET p == IF CheckUrlencode(path) THEN path ELSE Quote(path)
        q == IF StartsWith(p, FileScheme) THEN p ELSE FileScheme \o p
    IN  ReplaceAll(q, Unescaped)

-----------------------------------------------------------------------------
(* SQL: three-valued comparison and LIKE *)

\* a != b: "N" (NULL) when either side is NULL
SqlNe(a, b) ==
    IF IsNull(a) \/ IsNull(b) THEN "N" ELSE IF a # b THEN "T" ELSE "F"

SqlOr(x, y) ==
    IF x = "T" \/ y = "T" THEN "T" ELSE IF x = "N" \/ y = "N" THEN "N" ELSE "F"

\* s LIKE p: '%' any run of characters, '_' any one, letters without case
RECURSIVE Like(_, _)
Like(s, p) ==
    IF p = << >> THEN s = << >>
    ELSE IF Head(p) = "%"
         THEN \E k \in 0..Len(s) : Like(SubSeq(s, k + 1, Len(s)), Tail(p))
         ELSE /\ s # << >>
              /\ (Head(p) = "_" \/ Lower(Head(p)) = Lower(Head(s)))
              /\ Like(Tail(s), Tail(p))

-----------------------------------------------------------------------------
(* The process state the steps of run() work on *)

State ==
    [clementine |-> clementine, disk |-> disk, pc |-> pc, error |-> error,
     item |-> item, i |-> i, nb_items |-> nb_items, pl |-> pl, j |-> j,
     pl_item |-> pl_item, m |-> m, playlist_id |-> playlist_id,
     nb_added |-> nb_added, clem_playlists |-> clem_playlists, call |-> call,
     rowcount |-> rowcount, prev_call |-> prev_call, queried |-> queried,
     logged |-> logged]

Is(s) ==
    /\ clementine = s.clementine
    /\ disk = s.disk
    /\ pc = s.pc
    /\ error = s.error
    /\ item = s.item
    /\ i = s.i
    /\ nb_items = s.nb_items
    /\ pl = s.pl
    /\ j = s.j
    /\ pl_item = s.pl_item
    /\ m = s.m
    /\ playlist_id = s.playlist_id
    /\ nb_added = s.nb_added
    /\ clem_playlists = s.clem_playlists
    /\ call = s.call
    /\ rowcount = s.rowcount
    /\ prev_call = s.prev_call
    /\ queried = s.queried
    /\ logged = s.logged

Becomes(s) ==
    /\ clementine' = s.clementine
    /\ disk' = s.disk
    /\ pc' = s.pc
    /\ error' = s.error
    /\ item' = s.item
    /\ i' = s.i
    /\ nb_items' = s.nb_items
    /\ pl' = s.pl
    /\ j' = s.j
    /\ pl_item' = s.pl_item
    /\ m' = s.m
    /\ playlist_id' = s.playlist_id
    /\ nb_added' = s.nb_added
    /\ clem_playlists' = s.clem_playlists
    /\ call' = s.call
    /\ rowcount' = s.rowcount
    /\ prev_call' = s.prev_call
    /\ queried' = s.queried
    /\ logged' = s.logged

\* the state of a process that has just connected to a store holding `store`
Connected(store) ==
    [clementine |-> store, disk |-> store, pc |-> "start", error |-> "",
     item |-> NULL, i |-> 0, nb_items |-> 0, pl |-> NULL, j |-> 0,
     pl_item |-> NULL, m |-> 0, playlist_id |-> 0, nb_added |-> 0,
     clem_playlists |-> << >>, call |-> NULL, rowcount |-> 0, prev_call |-> NULL,
     queried |-> NULL, logged |-> << >>]

\* an exception nothing catches: the process ends where it is
Raise(s, exception) == [s EXCEPT !.error = exception]

Logged(s, record) == [s EXCEPT !.logged = Append(@, record)]

\* a step begins with nothing logged and no statement executed (the cursors
\* of _update_meta_data and _get_clementine_library_id are gone when they return)
Quiet(s) ==
    [s EXCEPT !.logged = << >>, !.prev_call = s.call, !.call = NULL, !.rowcount = 0,
              !.queried = NULL]

-----------------------------------------------------------------------------
(* The target store *)

\* self.clementine.isolation_level = None: the connection opens no
\* transaction, sqlite commits every statement as it is executed
isolation_level == NULL

Autocommit == IsNull(isolation_level)

\* cursor.execute of a statement that leaves the store as `store`
Execute(s, store) ==
    [s EXCEPT !.clementine = store,
              !.disk = IF Autocommit THEN store ELSE @]

\* self.clementine.commit()
CommitStore(s) == [s EXCEPT !.disk = s.clementine]

Min(S) == CHOOSE x \in S : \A y \in S : x <= y

\* SELECT rowid FROM songs WHERE filename like :filename
MatchingRows(songs, pattern) ==
    {r \in 1..Len(songs) : Like(songs[r].filename, pattern)}

\* cursor.execute(query, {'filename': path}) of _get_clementine_library_id
Select(s, path) == [s EXCEPT !.queried = Some(GetClementineFilename(path))]

\* _get_clementine_library_id: the first row's rowid, the rows taken in rowid
\* order; NULL stands for the ValueError the code raises when no row matches
\* (it never returns None)
GetClementineLibraryId(songs, path) ==
    LET rows == MatchingRows(songs, GetClementineFilename(path))
    IN  IF rows = {} THEN NULL ELSE Some(Min(rows))

\* the WHERE clause of the UPDATE, without rowid = :rowid1
UpdateGuard(row, v) ==
    SqlOr(SqlOr(SqlOr(SqlNe(row.rating, v.rating), SqlNe(row.playcount, v.playcount)),
                SqlNe(row.skipcount, v.skipcount)),
          SqlNe(row.lastplayed, v.lastplayed))

\* the SET clause as the variant that adds the counts of banshee to those of
\* clementine would have it
UpdatedRowAdding(row, v) ==
    [row EXCEPT !.rating = v.rating,
                !.playcount = IF IsNull(@) \/ IsNull(v.playcount) THEN NULL
                              ELSE Some(Get(@) + Get(v.playcount)),
                !.skipcount = IF IsNull(@) \/ IsNull(v.skipcount) THEN NULL
                              ELSE Some(Get(@) + Get(v.skipcount)),
                !.lastplayed = v.lastplayed]

\* the SET clause of the UPDATE
UpdatedRow(row, v) ==
    [row EXCEPT !.rating = v.rating, !.playcount = v.playcount,
                !.skipcount = v.skipcount, !.lastplayed = v.lastplayed]

\* _update_meta_data as an UPDATE without `rowid = :rowid1` would have it:
\* every row the rest of the WHERE clause holds for is set
UpdateMetaDataAnyRow(s, row_id, v) ==
    LET songs == s.clementine.songs
        hits == {r \in 1..Len(songs) : UpdateGuard(songs[r], v) = "T"}
        store == [s.clementine EXCEPT !.songs =
                     [r \in 1..Len(songs) |->
                         IF r \in hits THEN UpdatedRow(songs[r], v) ELSE songs[r]]]
        t == [Execute(s, store) EXCEPT
                 !.call = Some([rowid |-> row_id, values |-> v]),
                 !.rowcount = Cardinality(hits)]
    IN  IF t.rowcount # 0 THEN Logged(t, "info:statistics updated") ELSE t

\* _update_meta_data(row_id, path, rating, playcount, skipcount, lastplayed)
UpdateMetaData(s, row_id, v) ==
    LET songs == s.clementine.songs
        hit == row_id \in 1..Len(songs) /\ UpdateGuard(songs[row_id], v) = "T"
        store == IF hit
                 THEN [s.clementine EXCEPT !.songs[row_id] = UpdatedRow(@, v)]
                 ELSE s.clementine
        t == [Execute(s, store) EXCEPT
                 !.call = Some([rowid |-> row_id, values |-> v]),
                 !.rowcount = IF hit THEN 1 ELSE 0]
    IN  IF t.rowcount # 0 THEN Logged(t, "info:statistics updated") ELSE t

-----------------------------------------------------------------------------
(* The filesystem *)

FileKinds == {"absent", "audio", "other", "untyped"}

\* os.path.isfile(path)
IsFile(path) == path \in DOMAIN fs /\ fs[path] # "absent"

\* mimetypes.guess_type(path)[0], its part before the '/'; NULL for None
GuessType(path) == IF fs[path] = "untyped" THEN NULL ELSE Some(fs[path])

\* the test as `self._is_audio_file(path)` alone would have it: the type is
\* guessed from the name, a file that is not there passes for its name
IsAudioFileByName(path) ==
    IF ~IsFile(path) THEN "true"
    ELSE IF IsNull(GuessType(path)) THEN "raise"
    ELSE IF Get(GuessType(path)) = "audio" THEN "true" ELSE "false"

\* what `os.path.isfile(path) and self._is_audio_file(path)` does:
\* "raise" is the AttributeError of None.split
IsAudioFile(path) ==
    IF ~IsFile(path) THEN "false"
    ELSE IF IsNull(GuessType(path)) THEN "raise"
    ELSE IF Get(GuessType(path)) = "audio" THEN "true" ELSE "false"

-----------------------------------------------------------------------------
(* The source store.  An open store stands for any contents: a query      *)
(* returns its next row, or ends, as the store pleases; a closed store     *)
(* holds the rows its queries return.                                      *)

PathA == <<"/", "a", ".", "m">>
PathB == <<"/", "b", " ", "c", ".", "m">>
PathC == <<"/", "d", ".", "m">>
PathD == <<"/", "A", ".", "m">>

UriA == FileScheme \o PathA
UriB == FileScheme \o <<"/", "b", "%", "2", "0", "c", ".", "m">>
UriC == FileScheme \o PathC
UriD == FileScheme \o PathD

Stats(rating, playcount, skipcount, lastplayed) ==
    [rating |-> rating, playcount |-> playcount, skipcount |-> skipcount,
     lastplayed |-> lastplayed]

Track(uri, stats) ==
    [uri |-> uri, rating |-> stats.rating, PlayCount |-> stats.playcount,
     SkipCount |-> stats.skipcount, LastPlayedStamp |-> stats.lastplayed]

\* the rows CoreTracks is drawn from; the last one has no uri
TrackPool ==
    {Track(Some(UriA), Stats(Some(4), Some(10), Some(1), Some(100))),
     Track(Some(UriB), Stats(Some(5), Some(2), Some(0), NULL)),
     Track(Some(UriC), Stats(Some(1), Some(1), Some(1), Some(100))),
     Track(NULL, Stats(Some(0), Some(0), Some(0), NULL))}

\* the rows of the member query: SELECT uri
MemberPool == {[uri |-> t.uri] : t \in TrackPool}

PlaylistNames == {"Favorites", "favorites", "Mix"}

\* the next row of `select ... from CoreTracks`, none when the cursor ends
TrackRows(s) ==
    IF banshee.open
    THEN IF s.i < MaxTracks THEN TrackPool ELSE {}
    ELSE IF s.i < Len(banshee.CoreTracks) THEN {banshee.CoreTracks[s.i + 1]} ELSE {}

TracksEnd(s) == banshee.open \/ s.i = Len(banshee.CoreTracks)

\* the next row of the playlist query: ORDER BY nb_items DESC, and a
\* playlist has an entry (INNER JOIN, HAVING COUNT(1) > 0)
PlaylistRows(s) ==
    IF banshee.open
    THEN IF s.j < MaxPlaylists
         THEN {[Name |-> name, nb_items |-> n, uris |-> << >>] :
                  name \in PlaylistNames,
                  n \in 1..(IF s.j = 0 THEN MaxMembers ELSE Get(s.pl).nb_items)}
         ELSE {}
    ELSE IF s.j < Len(banshee.Playlists) THEN {banshee.Playlists[s.j + 1]} ELSE {}

PlaylistsEnd(s) == banshee.open \/ s.j = Len(banshee.Playlists)

\* the next row of the member query of pl: ORDER BY ViewOrder ASC
MemberRows(s) ==
    IF s.m = Get(s.pl).nb_items THEN {}
    ELSE IF banshee.open THEN MemberPool
    ELSE {[uri |-> Get(s.pl).uris[s.m + 1]]}

MembersEnd(s) == s.m = Get(s.pl).nb_items

-----------------------------------------------------------------------------
(* run(): the statistics loop *)

\* where run() goes on after the statistics block
AfterStats == IF args.import_playlists THEN "playlists" ELSE "commit"

\* run() up to the first row of CoreTracks
RunStart(s) ==
    IF args.update_stats
    THEN [Logged(Quiet(s), "info:updating statistics") EXCEPT !.pc = "stats"]
    ELSE [Quiet(s) EXCEPT !.pc = AfterStats]

StatsValues(row) ==
    [rating |-> row.rating, playcount |-> row.PlayCount,
     skipcount |-> row.SkipCount, lastplayed |-> row.LastPlayedStamp]

\* the body of `for item in ban_cursor` for the row fetched
StatsItem(s0, row) ==
    LET s == [Quiet(s0) EXCEPT !.item = Some(row), !.i = @ + 1]
    IN  IF IsNull(row.uri)
        THEN \* logging.warn, then urllib.unquote(None) raises
             Raise(Logged(s, "warn:uri is None"), "AttributeError")
        ELSE LET path == UriToPath(Get(row.uri))
                 audio == IsAudioFile(path)
             IN  IF audio = "raise" THEN Raise(s, "AttributeError")
                 ELSE IF audio = "false" THEN Logged(s, "warn:not a file")
                 ELSE LET t == Select([s EXCEPT !.nb_items = @ + 1], path)
                          row_id == GetClementineLibraryId(t.clementine.songs, path)
                      IN  IF IsNull(row_id) THEN Raise(t, "ValueError")
                          ELSE UpdateMetaData(t, Get(row_id), StatsValues(row))

\* the end of the statistics loop; item and nb_items are not read after it
StatsEnd(s) ==
    [Logged(Quiet(s), "info:checked files") EXCEPT
        !.item = NULL, !.i = 0, !.nb_items = 0, !.pc = AfterStats]

-----------------------------------------------------------------------------
(* run(): the playlist import *)

RECURSIVE InsertByUiOrder(_, _)
InsertByUiOrder(sorted, row) ==
    IF sorted = << >> THEN <<row>>
    ELSE IF row.ui_order < Head(sorted).ui_order THEN <<row>> \o sorted
    ELSE <<Head(sorted)>> \o InsertByUiOrder(Tail(sorted), row)

\* SELECT name FROM playlists ORDER BY ui_order
RECURSIVE OrderByUiOrder(_)
OrderByUiOrder(rows) ==
    IF rows = << >> THEN << >>
    ELSE InsertByUiOrder(OrderByUiOrder(SubSeq(rows, 1, Len(rows) - 1)), rows[Len(rows)])

\* _get_clementine_playlists without its loop: no playlist is known
GetClementinePlaylistsNone(s) ==
    [Logged(Logged(Quiet(s), "info:fetching playlists"), "info:importing playlists")
        EXCEPT !.clem_playlists = << >>, !.pc = "next_playlist"]

\* _get_clementine_playlists: offsets 1, 2, ... to the names
GetClementinePlaylists(s) ==
    LET rows == OrderByUiOrder(s.clementine.playlists)
    IN  [Logged(Logged(Quiet(s), "info:fetching playlists"), "info:importing playlists")
            EXCEPT !.clem_playlists = [k \in 1..Len(rows) |-> rows[k].name],
                   !.pc = "next_playlist"]

\* self.clem_playlists.values()
Values(d) == {d[k] : k \in DOMAIN d}

\* d[key] = value
SetItem(d, key, value) ==
    [k \in DOMAIN d \cup {key} |-> IF k = key THEN value ELSE d[k]]

\* the loop body with `pl['Name'] not in self.clem_playlists`: a name is never
\* among the offsets, every playlist is added
NextPlaylistByOffset(s0, row) ==
    LET s == [Quiet(s0) EXCEPT !.pl = Some(row), !.j = @ + 1]
    IN  [Logged(s, "info:adding playlist") EXCEPT
            !.playlist_id = Cardinality(DOMAIN s.clem_playlists) + 1,
            !.nb_added = 0, !.m = 0, !.pc = "items"]

\* the body of `for pl in ban_cursor` for the row fetched, up to the call of
\* _parse_playlist and the first lines of _parse_playlist
NextPlaylist(s0, row) ==
    LET s == [Quiet(s0) EXCEPT !.pl = Some(row), !.j = @ + 1]
    IN  IF row.Name \notin Values(s.clem_playlists)
        THEN [Logged(s, "info:adding playlist") EXCEPT
                 !.playlist_id = Cardinality(DOMAIN s.clem_playlists) + 1,
                 !.nb_added = 0, !.m = 0, !.pc = "items"]
        ELSE Logged(s, "warn:playlist already there")

\* the INSERT as a table that takes its new row first would have it
InsertItemFirst(store, id, library_id) ==
    [store EXCEPT !.playlist_items =
        <<[playlist |-> id, type |-> "Library", library_id |-> library_id]>> \o @]

\* INSERT INTO playlist_items
InsertItem(store, id, library_id) ==
    [store EXCEPT !.playlist_items =
        Append(@, [playlist |-> id, type |-> "Library", library_id |-> library_id])]

\* INSERT INTO playlists
InsertPlaylist(store, name, id) ==
    [store EXCEPT !.playlists = Append(@, [name |-> name, ui_order |-> id])]

\* the body of `for pl_item in pl_cursor` for the row fetched
ParseItem(s0, row) ==
    LET s == [Quiet(s0) EXCEPT !.pl_item = Some(row), !.m = @ + 1]
    IN  IF IsNull(row.uri) THEN Raise(s, "AttributeError")
        ELSE LET path == UriToPath(Get(row.uri))
                 audio == IsAudioFile(path)
             IN  IF audio = "raise" THEN Raise(s, "AttributeError")
                 ELSE IF audio = "false" THEN s
                 ELSE LET t == Select(s, path)
                          library_id == GetClementineLibraryId(t.clementine.songs, path)
                      IN  IF IsNull(library_id) THEN Raise(t, "ValueError")
                          ELSE [Execute(t, InsertItem(t.clementine, t.playlist_id,
                                                      Get(library_id)))
                                    EXCEPT !.nb_added = @ + 1]

\* _parse_playlist after the loop without its last line: the playlist is
\* written and not entered in clem_playlists
ParseEndUnregistered(s0) ==
    LET s == Quiet(s0)
        t == IF s.nb_added > 0
             THEN Execute(s, InsertPlaylist(s.clementine, Get(s.pl).Name, s.playlist_id))
             ELSE s
    IN  [t EXCEPT !.pl_item = NULL, !.m = 0, !.playlist_id = 0, !.nb_added = 0,
                  !.pc = "next_playlist"]

\* _parse_playlist after the loop, and back to the loop of run(): the locals
\* of _parse_playlist are gone
ParseEnd(s0) ==
    LET s == Quiet(s0)
        name == Get(s.pl).Name
        t == IF s.nb_added > 0
             THEN [Execute(s, InsertPlaylist(s.clementine, name, s.playlist_id)) EXCEPT
                      !.clem_playlists = SetItem(@, s.playlist_id, name)]
             ELSE s
    IN  [t EXCEPT !.pl_item = NULL, !.m = 0, !.playlist_id = 0, !.nb_added = 0,
                  !.pc = "next_playlist"]

\* the end of the playlist loop
ImportEnd(s) == [Quiet(s) EXCEPT !.pc = "commit"]

\* self.clementine.commit(); sys.exit(0)
Commit(s) == [CommitStore(Quiet(s)) EXCEPT !.pc = "done"]

-----------------------------------------------------------------------------
(* A whole run on a closed source store, as a function of the state *)

Ended(s) == s.pc = "done" \/ s.error # ""

One(S) == CHOOSE x \in S : TRUE

StepOf(s) ==
    CASE s.pc = "start" -> RunStart(s)
      [] s.pc = "stats" ->
            IF TrackRows(s) # {} THEN StatsItem(s, One(TrackRows(s))) ELSE StatsEnd(s)
      [] s.pc = "playlists" -> GetClementinePlaylists(s)
      [] s.pc = "next_playlist" ->
            IF PlaylistRows(s) # {} THEN NextPlaylist(s, One(PlaylistRows(s)))
            ELSE ImportEnd(s)
      [] s.pc = "items" ->
            IF MemberRows(s) # {} THEN ParseItem(s, One(MemberRows(s))) ELSE ParseEnd(s)
      [] s.pc = "commit" -> Commit(s)

RECURSIVE RunToEnd(_)
RunToEnd(s) == IF Ended(s) THEN s ELSE RunToEnd(StepOf(s))

-----------------------------------------------------------------------------
(* The states a run starts from *)

Song(filename, stats) ==
    [filename |-> filename, rating |-> stats.rating, playcount |-> stats.playcount,
     skipcount |-> stats.skipcount, lastplayed |-> stats.lastplayed]

\* the songs of the target: the files a.m and "b c.m"; d.m is not among them
Songs0 ==
    <<Song(UriA, Stats(Some(3), Some(8), Some(1), Some(100))),
      Song(UriB, Stats(Some(0), Some(0), Some(0), NULL))>>

\* a.m, d.m and A.m are audio files; "b c.m" is a file of any kind, or absent
FileSystems ==
    {(PathA :> "audio") @@ (PathB :> kind) @@ (PathC :> "audio") @@ (PathD :> "audio") :
        kind \in FileKinds}

\* the playlists the target holds before the first run
ExistingPlaylists ==
    {<< >>,
     <<[name |-> "Favorites", ui_order |-> 1]>>,
     <<[name |-> "Rock", ui_order |-> 3], [name |-> "Favorites", ui_order |-> 1]>>}

Store(playlists) ==
    [songs |-> Songs0, playlists |-> playlists, playlist_items |-> << >>]

OpenStore == [open |-> TRUE, CoreTracks |-> << >>, Playlists |-> << >>]

\* no path function has been called on its own
NoCodec ==
    [path |-> << >>, urlencoded |-> NULL, banshee_filename |-> NULL,
     clementine_filename |-> NULL, decoded |-> NULL, lookup |-> "",
     library_id |-> NULL]

\* a process connected to a target store, about to run
InitOn(sources) ==
    /\ args \in [update_stats : BOOLEAN, import_playlists : BOOLEAN]
    /\ banshee \in sources
    /\ fs \in FileSystems
    /\ \E existing \in ExistingPlaylists :
           /\ Is(Connected(Store(existing)))
           /\ startDisk = Store(existing)
    /\ past = << >>
    /\ codec = NoCodec

Init == InitOn({OpenStore})

SeqsUpTo(S, n) == UNION {[1..k -> S] : k \in 0..n}

Distinct(seq) == \A a, b \in 1..Len(seq) : a # b => seq[a] # seq[b]

\* the rows a closed CoreTracks is made of: those of TrackPool, and A.m, a
\* second file that LIKE finds the row of a.m for
ClosedTrackPool ==
    TrackPool \cup {Track(Some(UriD), Stats(Some(2), Some(7), Some(0), Some(200)))}

\* tables of CoreTracks of at most n rows: uri is unique
TrackTables(n) == {t \in SeqsUpTo(ClosedTrackPool, n) : Distinct(t)}

\* the rows of the playlist query with the uris their member queries return
ClosedPlaylistRows(members) ==
    {[Name |-> name, nb_items |-> Len(uris), uris |-> uris] :
        name \in PlaylistNames,
        uris \in SeqsUpTo({r.uri : r \in MemberPool}, members) \ {<< >>}}

\* ORDER BY nb_items DESC
OrderedBySize(rows) ==
    \A k \in 1..(Len(rows) - 1) : rows[k].nb_items >= rows[k + 1].nb_items

PlaylistTables(n, members) ==
    {p \in SeqsUpTo(ClosedPlaylistRows(members), n) : OrderedBySize(p)}

ClosedStores ==
    {[open |-> FALSE, CoreTracks |-> t, Playlists |-> p] :
        t \in TrackTables(ClosedTracks),
        p \in PlaylistTables(ClosedPlaylists, ClosedMembers)}

\* the runs on a source store that stays as it is; what a run does not read
\* is left out
InitRerun ==
    /\ InitOn(ClosedStores)
    /\ ~args.update_stats => banshee.CoreTracks = << >>
    /\ ~args.import_playlists => banshee.Playlists = << >>

-----------------------------------------------------------------------------
(* The steps of a run *)

Running == pc # "done" /\ error = ""

Step(s) == \E t \in {s} : Becomes(t) /\ UNCHANGED <<inputs, startDisk, past, codec>>

Start == Running /\ pc = "start" /\ Step(RunStart(State))

StatsLoopItem ==
    Running /\ pc = "stats" /\ \E row \in TrackRows(State) : Step(StatsItem(State, row))

StatsLoopEnd == Running /\ pc = "stats" /\ TracksEnd(State) /\ Step(StatsEnd(State))

LoadPlaylists == Running /\ pc = "playlists" /\ Step(GetClementinePlaylists(State))

PlaylistLoopItem ==
    /\ Running /\ pc = "next_playlist"
    /\ \E row \in PlaylistRows(State) : Step(NextPlaylist(State, row))

PlaylistLoopEnd ==
    Running /\ pc = "next_playlist" /\ PlaylistsEnd(State) /\ Step(ImportEnd(State))

MemberLoopItem ==
    Running /\ pc = "items" /\ \E row \in MemberRows(State) : Step(ParseItem(State, row))

MemberLoopEnd == Running /\ pc = "items" /\ MembersEnd(State) /\ Step(ParseEnd(State))

CommitRun == Running /\ pc = "commit" /\ Step(Commit(State))

Next ==
    \/ Start
    \/ StatsLoopItem
    \/ StatsLoopEnd
    \/ LoadPlaylists
    \/ PlaylistLoopItem
    \/ PlaylistLoopEnd
    \/ MemberLoopItem
    \/ MemberLoopEnd
    \/ CommitRun

Spec == Init /\ [][Next]_vars

-----------------------------------------------------------------------------
(* Runs that are cut short, and runs that follow a run *)

\* the process is killed, or a statement fails on the store (a lock that
\* times out, a disk error): nothing catches it
Crash ==
    /\ Running
    /\ error' = "killed"
    /\ UNCHANGED <<inputs, clementine, disk, pc, item, i, nb_items, pl, j, pl_item, m,
                   playlist_id, nb_added, clem_playlists, call, rowcount, prev_call,
                   queried, logged, startDisk, past, codec>>

\* b2c.py is started again on the stores as the last run left them
Rerun ==
    /\ ~Running
    /\ Len(past) + 1 < MaxRuns
    /\ Becomes(Connected(disk))
    /\ startDisk' = disk
    /\ past' = Append(past, [start |-> startDisk,
                             outcome |-> IF error = "" THEN "done" ELSE error])
    /\ UNCHANGED <<inputs, codec>>

NextRerun == Next \/ Crash \/ Rerun

SpecRerun == InitRerun /\ [][NextRerun]_vars

-----------------------------------------------------------------------------
(* The import of one playlist whose members are known: --import-playlists  *)
(* on a source store whose playlist query returns one row                  *)

ImportStores ==
    {[open |-> FALSE, CoreTracks |-> << >>, Playlists |-> <<row>>] :
        row \in ClosedPlaylistRows(ImportMembers)}

InitImport ==
    /\ InitOn(ImportStores)
    /\ args = [update_stats |-> FALSE, import_playlists |-> TRUE]

NextImport ==
    \/ Start
    \/ LoadPlaylists
    \/ PlaylistLoopItem
    \/ PlaylistLoopEnd
    \/ MemberLoopItem
    \/ MemberLoopEnd
    \/ CommitRun

SpecImport == InitImport /\ [][NextImport]_vars

-----------------------------------------------------------------------------
(* _update_meta_data on its own: any row, any values, any number of calls *)

MergeRatings == {Some(3), Some(4)}
MergeCounts == {Some(8)}
MergeStamps == {NULL, Some(100), Some(200)}

MergeValues ==
    {Stats(r, p, k, t) :
        r \in MergeRatings, p \in MergeCounts, k \in {Some(1)}, t \in MergeStamps}

MergeSongs ==
    {<<Song(UriA, v), Song(UriB, Stats(Some(3), Some(8), Some(1), NULL))>> :
        v \in MergeValues}

InitMerge ==
    /\ args = [update_stats |-> TRUE, import_playlists |-> FALSE]
    /\ banshee = OpenStore
    /\ fs \in {f \in FileSystems : f[PathB] = "audio"}
    /\ \E songs \in MergeSongs :
           LET store == [Store(<< >>) EXCEPT !.songs = songs]
           IN  /\ Is([Connected(store) EXCEPT !.pc = "merge"])
               /\ startDisk = store
    /\ past = << >>
    /\ codec = NoCodec

MergeCall ==
    /\ pc = "merge"
    /\ \E row_id \in 1..Len(clementine.songs), v \in MergeValues :
           Step(UpdateMetaData(Quiet(State), row_id, v))

NextMerge == MergeCall

SpecMerge == InitMerge /\ [][NextMerge]_vars

-----------------------------------------------------------------------------
(* The path functions and the lookup on their own: a path, and a call on   *)
(* it                                                                      *)

\* the pieces the paths are made of
PathTokens ==
    {<<"/">>, <<"a">>, <<" ">>, <<"%">>, <<"_">>, <<"&">>,
     <<"%", "2", "0">>, <<"%", "2", "C">>, FileScheme}

PathEncoded ==
    <<"/", "m", "u", "s", "i", "c", "/", "A", "r", "t", "i", "s", "t", "%",
      "2", "0", "N", "a", "m", "e", "/", "t", "r", "a", "c", "k", ".", "m",
      "p", "3">>

PathSpaced ==
    <<"/", "m", "u", "s", "i", "c", "/", "A", "r", "t", "i", "s", "t", " ",
      "N", "a", "m", "e", "/", "t", "r", "a", "c", "k", ".", "m", "p", "3">>

PathPunctuated ==
    <<"/", "m", "u", "s", "i", "c", "/", "A", "C", "&", "D", "C", " ", "(",
      "L", "i", "v", "e", ")", ",", " ", "t", "r", "a", "c", "k", ".", "m",
      "p", "3">>

ExamplePaths == {PathEncoded, PathSpaced, PathPunctuated}

Paths == {Flatten(ts) : ts \in SeqsUpTo(PathTokens, MaxTokens)} \cup ExamplePaths

\* the files of the songs the lookup runs on: "/_" and "/ a" give the
\* patterns file:///_ and file:///%20a
LookupPaths ==
    <<<<"/", "a">>, <<"/", "_">>, <<"/", "2", "0", "a">>, <<"/", " ", "a">>>>

LookupSongs ==
    {[k \in 1..Len(order) |->
         Song(GetClementineFilename(LookupPaths[order[k]]),
              Stats(Some(0), Some(0), Some(0), NULL))] :
        order \in {<<1, 2, 3, 4>>, <<4, 3, 2, 1>>}}

InitCodec ==
    /\ args = [update_stats |-> FALSE, import_playlists |-> FALSE]
    /\ banshee = OpenStore
    /\ fs \in {f \in FileSystems : f[PathB] = "audio"}
    /\ \E songs \in LookupSongs :
           LET store == [Store(<< >>) EXCEPT !.songs = songs]
           IN  /\ Is([Connected(store) EXCEPT !.pc = "codec"])
               /\ startDisk = store
    /\ past = << >>
    /\ codec \in {[NoCodec EXCEPT !.path = p] : p \in Paths}

\* nothing has been called on the path yet
Fresh == codec = [NoCodec EXCEPT !.path = codec.path]

\* a call that leaves `result` behind
Called(result) ==
    /\ codec' = result
    /\ UNCHANGED <<inputs, clementine, disk, pc, error, item, i, nb_items, pl, j,
                   pl_item, m, playlist_id, nb_added, clem_playlists, call, rowcount,
                   prev_call, queried, logged, startDisk, past>>

CheckUrlencodeCall ==
    /\ pc = "codec" /\ Fresh
    /\ Called([NoCodec EXCEPT !.path = codec.path,
                              !.urlencoded = Some(CheckUrlencode(codec.path))])

GetBansheeFilenameCall ==
    /\ pc = "codec" /\ Fresh
    /\ Called([NoCodec EXCEPT !.path = codec.path,
                              !.banshee_filename = Some(GetBansheeFilename(codec.path))])

GetClementineFilenameCall ==
    /\ pc = "codec" /\ Fresh
    /\ Called([NoCodec EXCEPT
                  !.path = codec.path,
                  !.clementine_filename = Some(GetClementineFilename(codec.path))])

\* _uri_to_path on what _get_banshee_filename has returned
UriToPathCall ==
    /\ pc = "codec"
    /\ codec.banshee_filename # NULL /\ codec.decoded = NULL
    /\ Called([codec EXCEPT !.decoded = Some(UriToPath(Get(codec.banshee_filename)))])

GetClementineLibraryIdCall ==
    /\ pc = "codec" /\ Fresh
    /\ LET row_id == GetClementineLibraryId(clementine.songs, codec.path)
       IN  Called([NoCodec EXCEPT
                      !.path = codec.path,
                      !.lookup = IF IsNull(row_id) THEN "ValueError" ELSE "row",
                      !.library_id = row_id])

NextCodec ==
    \/ CheckUrlencodeCall
    \/ GetBansheeFilenameCall
    \/ GetClementineFilenameCall
    \/ UriToPathCall
    \/ GetClementineLibraryIdCall

SpecCodec == InitCodec /\ [][NextCodec]_vars

-----------------------------------------------------------------------------
(* What the properties speak of *)

StatsOf(row) == Stats(row.rating, row.playcount, row.skipcount, row.lastplayed)

\* the rows a table holds beyond those it held when the run started
NewRows(table, old) == {k \in 1..Len(table) : k > Len(old)}

NewPlaylists == NewRows(disk.playlists, startDisk.playlists)

NewItems == NewRows(disk.playlist_items, startDisk.playlist_items)

\* the names of the playlists the target held when the run started
StartNames == {startDisk.playlists[k].name : k \in 1..Len(startDisk.playlists)}

\* the conditions of a row of the source: its uri is NULL; its file is an
\* audio file and no row of songs matches it
MissingUri(row) == IsNull(row.uri)

NotFoundInTarget(row) ==
    /\ ~IsNull(row.uri)
    /\ IsAudioFile(UriToPath(Get(row.uri))) = "true"
    /\ MatchingRows(clementine.songs,
                    GetClementineFilename(UriToPath(Get(row.uri)))) = {}

-----------------------------------------------------------------------------
(* C1 to C10 *)

\* C1: a run that ends before its commit, however it ends, leaves the durable
\* contents of the target store as they were when it started.
C1_UnchangedUnlessCommitted == error # "" => disk = startDisk

\* C2: a call of _update_meta_data with the row and the values of the call
\* before it reports no row updated and leaves the songs as they are.
C2_SecondMergeUnchanged ==
    [][(pc = "merge" /\ call # NULL /\ call' = call)
          => (rowcount' = 0 /\ clementine'.songs = clementine.songs /\ disk' = disk)]_vars

\* C2, witness: two calls in a row with the same row and values, the second
\* one on a row whose lastplayed is NULL.
C2_Witness ==
    /\ pc = "merge" /\ call # NULL /\ prev_call = call /\ rowcount = 0
    /\ IsNull(clementine.songs[Get(call).rowid].lastplayed)

\* C3: _update_meta_data sets the four fields and reports a row updated
\* whenever one of the four supplied values differs from the stored one, NULL
\* included, and reports none updated only when all four match.
C3_MergeSetsWhenDiffers ==
    [][(pc = "merge" /\ call' # NULL)
          => LET c == Get(call')
             IN  IF StatsOf(clementine.songs[c.rowid]) # c.values
                 THEN rowcount' = 1 /\ StatsOf(clementine'.songs[c.rowid]) = c.values
                 ELSE rowcount' = 0]_vars

\* C4: when a run has ended, by its commit or by a failure, every row of
\* playlist_items it wrote refers to the ui_order of a playlist it wrote.
C4_NoOrphanItems ==
    (pc = "done" \/ error # "")
        => \A k \in NewItems : \E q \in NewPlaylists :
               disk.playlists[q].ui_order = disk.playlist_items[k].playlist

\* C5: a row whose file is an audio file that songs does not hold does not end
\* the run: the statistics loop logs it as missing, the member loop drops it.
C5_NotFoundIsPerItem ==
    /\ (pc = "stats" /\ item # NULL /\ NotFoundInTarget(Get(item)))
          => (error = "" /\ logged = <<"warn:missing">>)
    /\ (pc = "items" /\ pl_item # NULL /\ NotFoundInTarget(Get(pl_item)))
          => error = ""

\* C6: a playlist the run creates has a ui_order above that of every playlist
\* the run created before it, and no ui_order of a playlist the target held
\* when the run started.
C6_FreshIncreasingOrder ==
    \A q \in NewPlaylists :
        /\ \A q2 \in NewPlaylists :
               q2 < q => disk.playlists[q2].ui_order < disk.playlists[q].ui_order
        /\ \A k \in 1..Len(startDisk.playlists) :
               startDisk.playlists[k].ui_order # disk.playlists[q].ui_order

\* C7: a run to its commit after a run that was cut short leaves the target
\* store as one run from the first run's start would have left it.
C7_RerunEqualsSingleRun ==
    (pc = "done" /\ Len(past) = 1 /\ past[1].outcome # "done")
        => disk = RunToEnd(Connected(past[1].start)).disk

\* C8: the step that ends the work on a source playlist writes and registers
\* its playlist row if and only if a member of it was resolved, and changes
\* neither playlists nor clem_playlists when none was.
C8_PlaylistIffMemberResolved ==
    [][(pc = "items" /\ (pc' = "next_playlist" \/ error' # ""))
          => LET name == Get(pl).Name
                 written ==
                     /\ clementine'.playlists =
                            Append(clementine.playlists,
                                   [name |-> name, ui_order |-> playlist_id])
                     /\ clem_playlists' = SetItem(clem_playlists, playlist_id, name)
                 untouched ==
                     /\ clementine'.playlists = clementine.playlists
                     /\ clem_playlists' = clem_playlists
             IN  IF nb_added > 0 THEN written ELSE untouched]_vars

\* C9: a row of the playlist query whose name is the name of a playlist the
\* target held when the run started is skipped: the step that fetches it
\* changes neither the target store nor clem_playlists and the loop goes on.
C9_ExistingNameSkipped ==
    [][(pc = "next_playlist" /\ j' = j + 1 /\ Get(pl').Name \in StartNames)
          => /\ clementine' = clementine
             /\ disk' = disk
             /\ clem_playlists' = clem_playlists
             /\ pc' = "next_playlist"
             /\ error' = ""]_vars

\* C9, witness: the row just fetched bears the name of a playlist of the
\* target and was passed over.
C9_Witness ==
    /\ pc = "next_playlist" /\ pl # NULL /\ Get(pl).Name \in StartNames
    /\ logged = <<"warn:playlist already there">>

\* C10: a row whose uri is NULL does not end the run: the statistics loop logs
\* a warning and goes on, the member loop goes on, and nothing is written.
C10_NullUriIsPerItem ==
    /\ (pc = "stats" /\ item # NULL /\ MissingUri(Get(item)))
          => (error = "" /\ logged = <<"warn:uri is None">>)
    /\ (pc = "items" /\ pl_item # NULL /\ MissingUri(Get(pl_item)))
          => error = ""

-----------------------------------------------------------------------------
(* C11 to C20 *)

\* the file of a row of the source is there and its guessed type is not
\* audio, or it has no guessable type
NotAudio(row) ==
    /\ ~IsNull(row.uri)
    /\ IsFile(UriToPath(Get(row.uri)))
    /\ \/ IsNull(GuessType(UriToPath(Get(row.uri))))
       \/ Get(GuessType(UriToPath(Get(row.uri)))) # "audio"

\* the file of a row of the source is not there
Absent(row) == ~IsNull(row.uri) /\ ~IsFile(UriToPath(Get(row.uri)))

\* C11: a row whose file is there without being an audio file, its type
\* guessed as another one or not guessable, does not end the run: nothing is
\* raised, nothing is written for it, and the loop goes on.
C11_NotAudioIsPerItem ==
    /\ (pc = "stats" /\ item # NULL /\ NotAudio(Get(item)))
          => (error = "" /\ call = NULL /\ logged = <<"warn:not a file">>)
    /\ (pc = "items" /\ pl_item # NULL /\ NotAudio(Get(pl_item)))
          => error = ""

\* C12: the step that fetches a row whose file is not there executes no
\* SELECT on songs and writes nothing; the statistics loop logs the row as not
\* a file, and both loops go on.
C12_NoQueryForMissingFile ==
    [][/\ (pc = "stats" /\ i' = i + 1 /\ Absent(Get(item')))
             => /\ queried' = NULL /\ call' = NULL
                /\ clementine' = clementine /\ disk' = disk
                /\ error' = "" /\ pc' = "stats"
                /\ logged' = <<"warn:not a file">>
       /\ (pc = "items" /\ m' = m + 1 /\ Absent(Get(pl_item')))
             => /\ queried' = NULL
                /\ clementine' = clementine /\ disk' = disk
                /\ error' = "" /\ pc' = "items"
                /\ nb_added' = nb_added]_vars

\* C12, witness: the row of CoreTracks at hand names a file that is not
\* there; it was logged and no SELECT was executed.
C12_Witness ==
    /\ pc = "stats" /\ item # NULL /\ Absent(Get(item))
    /\ queried = NULL /\ logged = <<"warn:not a file">>

\* a member resolves: its file is there, is an audio file, and a row of songs
\* matches it
Resolves(uri) ==
    /\ ~IsNull(uri)
    /\ IsFile(UriToPath(Get(uri)))
    /\ GuessType(UriToPath(Get(uri))) = Some("audio")
    /\ MatchingRows(clementine.songs, GetClementineFilename(UriToPath(Get(uri)))) # {}

\* the rowids the members that resolve resolve to, in the order of the members
RECURSIVE ResolvedIds(_)
ResolvedIds(uris) ==
    IF uris = << >> THEN << >>
    ELSE (IF Resolves(Head(uris))
          THEN <<Get(GetClementineLibraryId(clementine.songs, UriToPath(Get(Head(uris)))))>>
          ELSE << >>) \o ResolvedIds(Tail(uris))

\* C13: when the source playlist has been imported, playlist_items holds one
\* row for each of its members that resolves, in the order of the members,
\* all of type 'Library' and with the same value of playlist.
C13_ItemsInSourceOrder ==
    (~banshee.open /\ error = "" /\ pc \in {"next_playlist", "commit", "done"}
         /\ NewPlaylists # {})
        => LET ids == ResolvedIds(banshee.Playlists[1].uris)
               items == disk.playlist_items
           IN  /\ ids # << >>
               /\ items = [k \in 1..Len(ids) |->
                              [playlist |-> items[1].playlist, type |-> "Library",
                               library_id |-> ids[k]]]

\* C13, witness: a playlist of three members, the second of which does not
\* resolve, has been imported with two rows.
C13_Witness ==
    /\ ~banshee.open /\ pc = "done" /\ NewPlaylists # {}
    /\ Len(banshee.Playlists[1].uris) = 3
    /\ ~Resolves(banshee.Playlists[1].uris[2])
    /\ Len(disk.playlist_items) = 2

\* C14: no step of a run adds a row to songs, removes one or changes a
\* filename, and a row of songs changes only in a step that calls
\* _update_meta_data on its rowid.
C14_SongsKeepRowsAndNames ==
    [][/\ Len(clementine'.songs) = Len(clementine.songs)
       /\ Len(disk'.songs) = Len(disk.songs)
       /\ \A r \in 1..Len(clementine.songs) :
              /\ clementine'.songs[r].filename = clementine.songs[r].filename
              /\ disk'.songs[r].filename = disk.songs[r].filename
              /\ (clementine'.songs[r] # clementine.songs[r] \/ disk'.songs[r] # disk.songs[r])
                    => (call' # NULL /\ Get(call').rowid = r)]_vars

\* C14, witness: the statistics of one row have been set; the row has its
\* filename, the other row is as it was when the run started.
C14_Witness ==
    /\ call # NULL /\ rowcount = 1
    /\ disk.songs[Get(call).rowid] # startDisk.songs[Get(call).rowid]
    /\ disk.songs[Get(call).rowid].filename = startDisk.songs[Get(call).rowid].filename
    /\ \E r \in 1..Len(disk.songs) :
           r # Get(call).rowid /\ disk.songs[r] = startDisk.songs[r]

\* a path of the filesystem: absolute, or one that begins with file://
ValidPath(p) == StartsWith(p, <<"/">>) \/ StartsWith(p, FileScheme)

\* C15: _uri_to_path gives back the path _get_banshee_filename was called
\* with, also for a path with a literal '%20' and no space, with another
\* literal '%', or with file:// in front.
C15_DecodeOfEncodeIsPath ==
    (codec.decoded # NULL /\ ValidPath(codec.path))
        => Get(codec.decoded) = codec.path

\* the characters clementine stores as they are, and their escapes
Punctuation == {",", "(", ")", "'", "&", "+", "!", ";", "=", "~", "@", "$"}

PunctuationEscapes ==
    {<<"%", "2", "C">>, <<"%", "2", "8">>, <<"%", "2", "9">>, <<"%", "2", "7">>,
     <<"%", "2", "6">>, <<"%", "2", "B">>, <<"%", "2", "1">>, <<"%", "3", "B">>,
     <<"%", "3", "D">>, <<"%", "7", "E">>, <<"%", "4", "0">>, <<"%", "2", "4">>}

\* a character as the target has it: letters, digits, '_', '.', '-', '/' and
\* the punctuation as they are, any other one as its escape
TargetChar(c) ==
    IF \/ Ord(c) \in (48..57) \cup (65..90) \cup (97..122)
       \/ c \in {"_", ".", "-", "/"} \cup Punctuation
    THEN <<c>>
    ELSE <<"%", HexDigits[(Ord(c) \div 16) + 1], HexDigits[(Ord(c) % 16) + 1]>>

\* s holds '%20' / s holds a space, position by position
HasEscapedSpace(s) ==
    \E k \in 1..(Len(s) - 2) : s[k] = "%" /\ s[k + 1] = "2" /\ s[k + 2] = "0"

HasSpace(s) == \E k \in 1..Len(s) : s[k] = " "

\* C16: what _get_clementine_filename returns begins with file:// and holds
\* none of the twelve escapes of the punctuation; for a path that does not
\* look url-encoded it is file:// and then the path, each character as it is
\* when it is safe or punctuation and as its escape otherwise.
C16_TargetFilename ==
    codec.clementine_filename # NULL
        => LET r == Get(codec.clementine_filename)
               p == codec.path
           IN  /\ StartsWith(r, FileScheme)
               /\ \A e \in PunctuationEscapes : ~Contains(r, e)
               /\ ~(HasEscapedSpace(p) /\ ~HasSpace(p))
                     => r = FileScheme \o Flatten([k \in 1..Len(p) |-> TargetChar(p[k])])

\* C16, witness: /music/AC&DC (Live), track.mp3 has become
\* file:///music/AC&DC%20(Live),%20track.mp3.
C16_Witness ==
    /\ codec.path = PathPunctuated
    /\ codec.clementine_filename = Some(
          <<"f", "i", "l", "e", ":", "/", "/", "/", "m", "u", "s", "i", "c",
            "/", "A", "C", "&", "D", "C", "%", "2", "0", "(", "L", "i", "v",
            "e", ")", ",", "%", "2", "0", "t", "r", "a", "c", "k", ".", "m",
            "p", "3">>)

\* C17: _check_urlencode is true exactly for the strings that hold '%20' and
\* no space; true for /music/Artist%20Name/track.mp3, false for
\* /music/Artist Name/track.mp3.
C17_UrlencodedIffEscapedSpaceOnly ==
    codec.urlencoded # NULL
        => /\ Get(codec.urlencoded)
                 <=> (HasEscapedSpace(codec.path) /\ ~HasSpace(codec.path))
           /\ codec.path = PathEncoded => Get(codec.urlencoded)
           /\ codec.path = PathSpaced => ~Get(codec.urlencoded)

\* C17, witness: the call on a string that holds both '%20' and a space has
\* returned False.
C17_Witness ==
    /\ codec.urlencoded = Some(FALSE)
    /\ HasEscapedSpace(codec.path) /\ HasSpace(codec.path)

LowerCase(s) == [k \in 1..Len(s) |-> Lower(s[k])]

\* C18: the row _get_clementine_library_id returns for a path has, up to the
\* case of the letters, the filename _get_clementine_filename gives the path.
C18_RowOfThisFile ==
    codec.lookup = "row"
        => LowerCase(clementine.songs[Get(codec.library_id)].filename)
               = LowerCase(GetClementineFilename(codec.path))

\* C19: a run that has reached its commit after a run that had reached its
\* own, on the same source store and filesystem, leaves the target store as
\* it found it.
C19_SecondRunChangesNothing ==
    (pc = "done" /\ Len(past) >= 1 /\ past[Len(past)].outcome = "done")
        => disk = startDisk

\* C19, witness: the first run has set statistics and added a playlist, the
\* second run has reached its commit.
C19_Witness ==
    /\ pc = "done" /\ Len(past) = 1 /\ past[1].outcome = "done"
    /\ startDisk.songs # past[1].start.songs
    /\ Len(startDisk.playlists) > Len(past[1].start.playlists)
    /\ disk = startDisk

\* C20: in every state of a run the playlists the run has created bear
\* names that differ from one another and from the name of every playlist the
\* target held when the run started.
C20_NoDuplicateNames ==
    \A q \in NewPlaylists :
        /\ disk.playlists[q].name \notin StartNames
        /\ \A q2 \in NewPlaylists :
               q2 # q => disk.playlists[q2].name # disk.playlists[q].name

\* C20, witness: the row just fetched bears the name of a playlist this run
\* has created, a name the target did not hold before, and was passed over.
C20_Witness ==
    /\ pc = "next_playlist" /\ pl # NULL
    /\ logged = <<"warn:playlist already there">>
    /\ Get(pl).Name \notin StartNames
    /\ \E q \in NewPlaylists : disk.playlists[q].name = Get(pl).Name

====
